---------------------------- MODULE Spec2Model ----------------------------
(***************************************************************************)
(* State-machine model of project::SceneManager (scene registry, active    *)
(* index, activation procedure with cleanup/initialize fault handling).    *)
(*                                                                         *)
(* Indices are 0-based as in the C++ code; the registry `scenes` is a TLA+ *)
(* sequence, so element i of the vector is scenes[i + 1].  A registered    *)
(* scene is named by its registration ordinal (1 for the first non-null    *)
(* registration, 2 for the second, ...); NullScene stands for an empty     *)
(* unique_ptr / nullptr.                                                   *)
(*                                                                         *)
(* A scene's initialize / cleanup is an external collaborator that may     *)
(* return normally ("none") or throw: "std" is an exception derived from   *)
(* std::exception, "other" is any other thrown object.  The outcome of     *)
(* each such call is an input of the operation that makes it.              *)
(***************************************************************************)
EXTENDS Integers, Sequences, FiniteSets, TLC

\* ------------------------------------------------------------------ bounds

\* Largest number of scenes registered in a run.
MaxScenes == 3

\* Width in bits of the modelled size_t (the program's is 64).
SizeWidth == 8

\* ------------------------------------------------------------- basic values

SizeModulus == 2 ^ SizeWidth

SizeMax == SizeModulus - 1

\* An empty unique_ptr<SceneStrategy> / a null SceneStrategy*.
NullScene == 0

\* The "none active" value the active index holds before the first activation.
NoneActive == SizeMax

SceneIds == 1 .. MaxScenes

\* Outcomes of a call of a scene's initialize() or cleanup().
Faults == {"none", "std", "other"}

\* Index arguments a caller passes to switchToScene.
IndexArgs == (0 .. MaxScenes + 1) \cup {SizeMax}

VARIABLES
    scenes,             \* std::vector<std::unique_ptr<SceneStrategy>> scenes
    currentSceneIndex,  \* size_t currentSceneIndex
    lifecycle,          \* history: scene -> most recent lifecycle call on it:
                        \*   "never", "init_ok", "init_fault", "cleanup_ok"
                        \*   or "cleanup_fault"
    lastOp,             \* history: the operation that produced this state
    prevOp,             \* history: summary of the operation before lastOp
    nextRun             \* history: active indices seen along the current run
                        \*          of consecutive fault-free switchToNextScene

\* State of one BulletPhysicsScene object, checked on its own (SpecBullet).
VARIABLES
    bps,                \* the object's fields (see BpsNew)
    resLog,             \* history: acquisitions and releases, in order, since
                        \*          the start of the most recent initialize
    bpsOp               \* history: the operation that produced this state

\* State of one Scene object, checked on its own (SpecScene).
VARIABLES
    objects,            \* std::vector<SceneObject> objects
    sceneAlive,         \* FALSE once ~Scene() has run
    modelUnloads,       \* history: model -> number of UnloadModel calls on it;
                        \*          its length is the number of models added
    sceneOp             \* history: the operation that produced this state

managerVars == <<scenes, currentSceneIndex, lifecycle, lastOp, prevOp, nextRun>>

bulletVars == <<bps, resLog, bpsOp>>

sceneVars == <<objects, sceneAlive, modelUnloads, sceneOp>>

vars == <<managerVars, bulletVars, sceneVars>>

\* ------------------------------------------------------------ trace events

\* One observable step inside an operation: a call on a scene (`out` is how
\* the call ended, one of Faults), or the write of currentSceneIndex
\* ("setIndex", with the value written in `at`).
Ev(ev, at, scene, out) == [ev |-> ev, at |-> at, scene |-> scene, out |-> out]

\* TRUE iff the call recorded in event e returned normally.
Ok(e) == e.out = "none"

\* scenes[i] followed by the null test the code applies to it.
SceneAt(sc, i) == IF i < Len(sc) THEN sc[i + 1] ELSE NullScene


\* TRUE iff no call recorded in the trace threw.
NoFault(trace) == \A k \in 1 .. Len(trace) : Ok(trace[k])

\* The calls of kind `ev` in a trace, in order.
Calls(trace, ev) == SelectSeq(trace, LAMBDA e : e.ev = ev)

\* Fold a trace into the per-scene record of the most recent lifecycle call.
RECURSIVE ApplyTrace(_, _)
ApplyTrace(lc, trace) ==
    IF trace = <<>> THEN lc
    ELSE LET e == Head(trace)
             lc1 == IF e.ev = "initialize"
                    THEN [lc EXCEPT ![e.scene] = IF Ok(e) THEN "init_ok" ELSE "init_fault"]
                    ELSE IF e.ev = "cleanup"
                    THEN [lc EXCEPT ![e.scene] = IF Ok(e) THEN "cleanup_ok" ELSE "cleanup_fault"]
                    ELSE lc
         IN ApplyTrace(lc1, Tail(trace))

\* ------------------------------------------------------ SceneManager: reads

\* getCurrentScene(): the scene at the active index, or null.
GetCurrentScene(sc, cur) == IF cur >= Len(sc) THEN NullScene ELSE sc[cur + 1]

\* --------------------------------------------- SceneManager::activateScene

\* The result of an operation on the controller: the active index it leaves,
\* the calls it made, and whether an exception left it.
Result(index, trace, threw) == [index |-> index, trace |-> trace, threw |-> threw]

\* Mutant: the bounds test off by one (rejects the last valid index).
ActivateOutOfBoundsOffByOne(index, size) == index + 1 >= size

\* if (index >= scenes.size()) { ...; return; }
ActivateOutOfBounds(index, size) == index >= size

\* Mutant: the same-scene test left out.
AlreadyActiveNever(index, cur) == FALSE

\* if (index == currentSceneIndex) { return; }
AlreadyActive(index, cur) == index = cur

\* The handlers of the try around scenes[oldIndex]->cleanup():
\* catch (const std::exception&) and catch (...).
CleanupHandles(kind) == kind \in {"std", "other"}

\* The handlers of the try around scenes[currentSceneIndex]->initialize():
\* catch (const std::exception&) and catch (...).
InitializeHandles(kind) == kind \in {"std", "other"}

\* Mutant: the recovery try catches std::exception only.
RecoveryHandlesStdOnly(kind) == kind = "std"

\* The handler of the try around the recovery scenes[0]->initialize(): catch (...).
RecoveryHandles(kind) == kind \in {"std", "other"}

\* Mutant: the fallback goes to the second scene.
RecoveryIndexOne == 0 + 1

\* The index the controller falls back to when the target's initialize throws.
RecoveryIndex == 0

\* Mutant: the handlers reset the index without initializing the fallback scene.
RecoverNoInitialize(sc, cur, trace, rf) ==
    IF Len(sc) = 0 THEN [index |-> cur, trace |-> trace, threw |-> FALSE]
    ELSE [index |-> 0,
          trace |-> Append(trace, [ev |-> "setIndex", at |-> 0,
                                   scene |-> sc[1], out |-> "none"]),
          threw |-> FALSE]

\* Mutant: the handlers try the fallback scene a second time when it throws.
RecoverRetries(sc, cur, trace, rf) ==
    IF Len(sc) = 0 THEN [index |-> cur, trace |-> trace, threw |-> FALSE]
    ELSE LET set == [ev |-> "setIndex", at |-> 0, scene |-> sc[1], out |-> "none"]
             init == [ev |-> "initialize", at |-> 0, scene |-> sc[1], out |-> rf]
         IN [index |-> 0,
             trace |-> IF rf = "none" THEN trace \o <<set, init>>
                       ELSE trace \o <<set, init, init>>,
             threw |-> FALSE]

\* The body of either initialize handler: if (!scenes.empty()) {
\* currentSceneIndex = 0; if (scenes[0]) { try { scenes[0]->initialize(); }
\* catch (...) {} } }.  `cur` and `trace` are the index and the calls so far.
Recover(sc, cur, trace, rf) ==
    IF Len(sc) = 0 THEN Result(cur, trace, FALSE)
    ELSE LET first == SceneAt(sc, RecoveryIndex)
             t1 == Append(trace, Ev("setIndex", RecoveryIndex, first, "none"))
         IN IF first = NullScene THEN Result(RecoveryIndex, t1, FALSE)
            ELSE Result(RecoveryIndex,
                        Append(t1, Ev("initialize", RecoveryIndex, first, rf)),
                        rf # "none" /\ ~RecoveryHandles(rf))

\* Mutant: the new scene is initialized before currentSceneIndex is written.
CommitInitializesFirst(sc, index, trace, inf, rf) ==
    LET init == [ev |-> "initialize", at |-> index, scene |-> sc[index + 1], out |-> inf]
        set == [ev |-> "setIndex", at |-> index, scene |-> sc[index + 1], out |-> "none"]
    IN IF inf = "none"
       THEN [index |-> index, trace |-> trace \o <<init, set>>, threw |-> FALSE]
       ELSE [index |-> 0,
             trace |-> trace \o <<init, set,
                                  [ev |-> "setIndex", at |-> 0, scene |-> sc[1], out |-> "none"],
                                  [ev |-> "initialize", at |-> 0, scene |-> sc[1], out |-> rf]>>,
             threw |-> FALSE]

\* currentSceneIndex = index; then initialize the new scene under the two
\* handlers.  `trace` holds the calls made so far (the old scene's cleanup).
Commit(sc, index, trace, inf, rf) ==
    LET target == SceneAt(sc, index)
        t1 == Append(trace, Ev("setIndex", index, target, "none"))
    IN IF target = NullScene THEN Result(index, t1, FALSE)
       ELSE LET t2 == Append(t1, Ev("initialize", index, target, inf))
            IN IF inf = "none" THEN Result(index, t2, FALSE)
               ELSE IF ~InitializeHandles(inf) THEN Result(index, t2, TRUE)
               ELSE Recover(sc, index, t2, rf)

\* Mutant: the cleanup handlers report and fall through.
CleanupAbortsNever(cf) == FALSE

\* Both cleanup handlers end in `return;`: a throwing cleanup ends the
\* activation before currentSceneIndex is written.
CleanupAborts(cf) == cf # "none"

\* activateScene(index) on registry `sc` with active index `cur`; cf, inf and
\* rf are the outcomes of the old scene's cleanup, the target's initialize
\* and the recovery initialize, should the code make those calls.
ActivateScene(sc, cur, index, cf, inf, rf) ==
    IF ActivateOutOfBounds(index, Len(sc)) THEN Result(cur, <<>>, FALSE)
    ELSE IF AlreadyActive(index, cur) THEN Result(cur, <<>>, FALSE)
    ELSE LET oldIndex == cur
             old == SceneAt(sc, oldIndex)
         IN IF old = NullScene THEN Commit(sc, index, <<>>, inf, rf)
            ELSE LET t0 == <<Ev("cleanup", oldIndex, old, cf)>>
                 IN IF cf # "none" /\ ~CleanupHandles(cf) THEN Result(cur, t0, TRUE)
                    ELSE IF CleanupAborts(cf) THEN Result(cur, t0, FALSE)
                    ELSE Commit(sc, index, t0, inf, rf)

\* ------------------------------------------------------ BulletPhysicsScene

\* Largest number of box models IsModelValid rejects in one initialize.
MaxInvalidBoxes == 1

\* createFallingBoxes: constexpr int kBoxCount = 10;
kBoxCount == 10

\* static_cast<int>(std::sqrt(static_cast<float>(n))) for a small n >= 0.
ISqrt(n) == CHOOSE r \in 0 .. n : r * r <= n /\ (r + 1) * (r + 1) > n

\* createFallingBoxes: const int kGridSize = ...sqrt(kBoxCount)
kGridSize == ISqrt(kBoxCount)

\* A pointer is <<kind, slot>>: the object of that kind allocated for the
\* physics object at position `slot` of physicsObjects (slot 0 for the five
\* world components).  NullPtr is nullptr.
NullPtr == <<"null", 0>>

Ptr(kind, slot) == <<kind, slot>>

\* A Model value is named by the LoadModelFromMesh call that produced it:
\* the position of the physics object it was loaded for (0: the ground
\* model); NoModel is the value-initialized Model{}.
NoModel == 0 - 1

\* BulletPhysicsScene as default-constructed (member initializers).
BpsNew ==
    [alive |-> TRUE,
     isInitialized |-> FALSE,
     hasGroundModel |-> FALSE,
     groundModel |-> NoModel,
     physicsObjects |-> <<>>,
     dynamicsWorld |-> NullPtr,
     dispatcher |-> NullPtr,
     overlappingPairCache |-> NullPtr,
     constraintSolver |-> NullPtr,
     collisionConfiguration |-> NullPtr]

\* A step on the resources: "load" / "unload" of a model, "new" / "delete"
\* of a pointer.
Res(what, id) == [what |-> what, id |-> id]

\* The state an operation works on: the object's fields and the resource log.
St(o, log) == [o |-> o, log |-> log]

\* Number of steps `what` on resource `id` in a log.
Count(log, what, id) == Len(SelectSeq(log, LAMBDA e : e.what = what /\ e.id = id))

\* setupPhysicsWorld(): the five world components.
SetupPhysicsWorld(st) ==
    LET kinds == <<"collisionConfiguration", "dispatcher", "overlappingPairCache",
                   "constraintSolver", "dynamicsWorld">>
    IN St([st.o EXCEPT !.collisionConfiguration = Ptr(kinds[1], 0),
                       !.dispatcher = Ptr(kinds[2], 0),
                       !.overlappingPairCache = Ptr(kinds[3], 0),
                       !.constraintSolver = Ptr(kinds[4], 0),
                       !.dynamicsWorld = Ptr(kinds[5], 0)],
          st.log \o [k \in 1 .. 5 |-> Res("new", Ptr(kinds[k], 0))])

\* A PhysicsObject for position `slot` with freshly allocated shape, motion
\* state and rigid body (in the order the code allocates them).
NewBody(st, slot, model, hasModel) ==
    St([st.o EXCEPT !.physicsObjects =
            Append(@, [rigidBody |-> Ptr("rigidBody", slot),
                       collisionShape |-> Ptr("collisionShape", slot),
                       motionState |-> Ptr("motionState", slot),
                       model |-> model,
                       hasModel |-> hasModel])],
       st.log \o <<Res("new", Ptr("collisionShape", slot)),
                   Res("new", Ptr("motionState", slot)),
                   Res("new", Ptr("rigidBody", slot))>>)

\* createGroundPlane: groundObj.hasModel = hasGroundModel;
\* if (hasGroundModel) groundObj.model = groundModel;
GroundObjectModel(o) ==
    [model |-> IF o.hasGroundModel THEN o.groundModel ELSE NoModel,
     hasModel |-> o.hasGroundModel]

\* createGroundPlane(): the static ground body, stored in physicsObjects.
CreateGroundPlane(st) ==
    LET gm == GroundObjectModel(st.o)
    IN NewBody(st, Len(st.o.physicsObjects), gm.model, gm.hasModel)

\* One iteration of the inner loop of createFallingBoxes: the box's body,
\* then its model (valid unless its boxIndex is in `invalid`).
CreateBox(st, boxIndex, invalid) ==
    LET slot == Len(st.o.physicsObjects)
        valid == boxIndex \notin invalid
        st1 == NewBody(st, slot, slot, valid)
    IN St(st1.o, IF valid THEN Append(st1.log, Res("load", slot)) ELSE st1.log)

\* createFallingBoxes(): for (i = 0; i < kGridSize && boxIndex < kBoxCount; ++i)
\*   for (j = 0; j < kGridSize && boxIndex < kBoxCount; ++j) { ...; ++boxIndex; }
RECURSIVE BoxLoop(_, _, _, _, _)
BoxLoop(st, i, j, boxIndex, invalid) ==
    IF ~(i < kGridSize /\ boxIndex < kBoxCount) THEN st
    ELSE IF ~(j < kGridSize /\ boxIndex < kBoxCount)
         THEN BoxLoop(st, i + 1, 0, boxIndex, invalid)
         ELSE BoxLoop(CreateBox(st, boxIndex, invalid), i, j + 1, boxIndex + 1, invalid)

CreateFallingBoxes(st, invalid) == BoxLoop(st, 0, 0, 0, invalid)

\* initialize: groundModel = LoadModelFromMesh(cubeMesh);
\* hasGroundModel = IsModelValid(groundModel);
LoadGroundModel(st, groundValid) ==
    St([st.o EXCEPT !.groundModel = 0, !.hasGroundModel = groundValid],
       IF groundValid THEN Append(st.log, Res("load", 0)) ELSE st.log)

\* Mutant: initialize without the isInitialized test.
InitializeSkipsNever(o) == FALSE

\* initialize: if (isInitialized) return;
InitializeSkips(o) == o.isInitialized

\* BulletPhysicsScene::initialize(); groundValid and invalid are what
\* IsModelValid answers for the ground model and for the box models.
BpsInitialized(o, log, groundValid, invalid) ==
    IF InitializeSkips(o) THEN St(o, log)
    ELSE LET st == CreateFallingBoxes(
                       CreateGroundPlane(
                           SetupPhysicsWorld(
                               LoadGroundModel(St(o, <<>>), groundValid))),
                       invalid)
         IN St([st.o EXCEPT !.isInitialized = TRUE], st.log)

\* cleanup: for (auto& obj : physicsObjects) if (obj.hasModel) {
\* UnloadModel(obj.model); obj.hasModel = false; }  -- objects from position k on.
RECURSIVE UnloadObjectModels(_, _)
UnloadObjectModels(st, k) ==
    IF k > Len(st.o.physicsObjects) THEN st
    ELSE LET obj == st.o.physicsObjects[k]
         IN IF obj.hasModel
            THEN UnloadObjectModels(
                     St([st.o EXCEPT !.physicsObjects[k].hasModel = FALSE],
                        Append(st.log, Res("unload", obj.model))),
                     k + 1)
            ELSE UnloadObjectModels(st, k + 1)

\* cleanup: if (hasGroundModel) { UnloadModel(groundModel); hasGroundModel = false; }
UnloadGroundModel(st) ==
    IF st.o.hasGroundModel
    THEN St([st.o EXCEPT !.hasGroundModel = FALSE],
            Append(st.log, Res("unload", st.o.groundModel)))
    ELSE st

\* if (p != nullptr) { delete p; p = nullptr; }: the log after the delete.
Delete(log, p) == IF p # NullPtr THEN Append(log, Res("delete", p)) ELSE log

\* cleanupPhysicsWorld: the loop deleting each object's rigid body, motion
\* state and collision shape -- objects from position k on.
RECURSIVE DeleteBodies(_, _)
DeleteBodies(st, k) ==
    IF k > Len(st.o.physicsObjects) THEN st
    ELSE LET obj == st.o.physicsObjects[k]
         IN DeleteBodies(
                St([st.o EXCEPT !.physicsObjects[k].rigidBody = NullPtr,
                                !.physicsObjects[k].motionState = NullPtr,
                                !.physicsObjects[k].collisionShape = NullPtr],
                   Delete(Delete(Delete(st.log, obj.rigidBody), obj.motionState),
                          obj.collisionShape)),
                k + 1)

\* cleanupPhysicsWorld(): the bodies, physicsObjects.clear(), then the five
\* world components.
CleanupPhysicsWorld(st) ==
    LET st1 == DeleteBodies(st, 1)
        o == st1.o
    IN St([o EXCEPT !.physicsObjects = <<>>,
                    !.dynamicsWorld = NullPtr,
                    !.constraintSolver = NullPtr,
                    !.overlappingPairCache = NullPtr,
                    !.dispatcher = NullPtr,
                    !.collisionConfiguration = NullPtr],
          Delete(Delete(Delete(Delete(Delete(st1.log, o.dynamicsWorld),
                                             o.constraintSolver),
                                      o.overlappingPairCache),
                               o.dispatcher),
                 o.collisionConfiguration))

\* cleanup: if (!isInitialized) return;
CleanupSkips(o) == ~o.isInitialized

\* BulletPhysicsScene::cleanup()
BpsCleaned(o, log) ==
    IF CleanupSkips(o) THEN St(o, log)
    ELSE CleanupPhysicsWorld(
             UnloadGroundModel(
                 UnloadObjectModels(St([o EXCEPT !.isInitialized = FALSE], log), 1)))

\* ------------------------------------------------------------------- Scene

\* Largest number of addObject calls on one Scene.
MaxAdds == 3

\* Argument values of addObject: names, vectors and scales.
NameArgs == {"", "a"}

VectorArgs == {"zero", "v"}

PositionArgs == {"zero"}

ScaleArgs == {1}

\* Index arguments a caller passes to getObject and removeObject.
ObjectIndexArgs == 0 .. MaxAdds + 1

\* struct SceneObject with its default member initializers; the model is
\* whatever the caller assigns.
SceneObject(model) ==
    [model |-> model, position |-> "zero", rotation |-> "zero", scale |-> 1,
     tint |-> "WHITE", name |-> ""]

\* addObject(model, position, scale, name): the object it builds.
ObjectDefault(model, position, scale, name) ==
    [SceneObject(model) EXCEPT !.position = position, !.scale = scale, !.name = name]

\* addObject(model, position, rotation, scale, name): the object it builds.
ObjectRotated(model, position, rotation, scale, name) ==
    [SceneObject(model) EXCEPT !.position = position, !.rotation = rotation,
                               !.scale = scale, !.name = name]

\* Mutant: the count after the push is returned.
AddReturnsCount(size) == size

\* return objects.size() - 1;   (size is the count after push_back)
AddReturn(size) == (size - 1) % SizeModulus

\* objects.at(index): the element, or std::out_of_range.
ObjectAt(objs, index) ==
    IF index < Len(objs)
    THEN [threw |-> FALSE, obj |-> objs[index + 1]]
    ELSE [threw |-> TRUE, obj |-> SceneObject(NoModel)]

\* Mutant: the position of the last match is found.
FindIfLast(objs, name) ==
    IF \E k \in 1 .. Len(objs) : objs[k].name = name
    THEN (CHOOSE k \in 1 .. Len(objs) :
              /\ objs[k].name = name
              /\ \A j \in k + 1 .. Len(objs) : objs[j].name # name) - 1
    ELSE Len(objs)

\* std::find_if over objects by name: the position of the first match, or
\* objects.size() for end().
FindIf(objs, name) ==
    IF \E k \in 1 .. Len(objs) : objs[k].name = name
    THEN (CHOOSE k \in 1 .. Len(objs) :
              /\ objs[k].name = name
              /\ \A j \in 1 .. k - 1 : objs[j].name # name) - 1
    ELSE Len(objs)

\* UnloadModel(model)
UnloadModel(unl, model) == [unl EXCEPT ![model] = @ + 1]

\* Mutant: the last element is erased.
EraseBack(objs, index) == SubSeq(objs, 1, Len(objs) - 1)

\* objects.erase(objects.begin() + offset)
Erase(objs, index) == SubSeq(objs, 1, index) \o SubSeq(objs, index + 2, Len(objs))

\* removeObject: if (index < objects.size())
RemoveInRange(index, size) == index < size

\* Scene::removeObject(index): the objects and the unload counts after it.
RemovedObject(objs, unl, index) ==
    IF RemoveInRange(index, Len(objs))
    THEN [objects |-> Erase(objs, index), unloads |-> UnloadModel(unl, objs[index + 1].model)]
    ELSE [objects |-> objs, unloads |-> unl]

\* Scene::removeObjectByName(name)
RemovedObjectByName(objs, unl, name) ==
    LET iterator == FindIf(objs, name)
    IN IF iterator # Len(objs)
       THEN [objects |-> Erase(objs, iterator),
             unloads |-> UnloadModel(unl, objs[iterator + 1].model), ret |-> TRUE]
       ELSE [objects |-> objs, unloads |-> unl, ret |-> FALSE]

\* Scene::clear: the unload loop, from position k on.
RECURSIVE UnloadAll(_, _, _)
UnloadAll(objs, unl, k) ==
    IF k > Len(objs) THEN unl
    ELSE UnloadAll(objs, UnloadModel(unl, objs[k].model), k + 1)

\* Mutant: the models are unloaded but the vector is not emptied.
ClearedKeepsObjects(objs, unl) == [objects |-> objs, unloads |-> UnloadAll(objs, unl, 1)]

\* getObjectCount()
GetObjectCount(objs) == Len(objs)

\* isEmpty()
IsEmpty(objs) == objs = <<>>

\* Scene::clear()
Cleared(objs, unl) == [objects |-> <<>>, unloads |-> UnloadAll(objs, unl, 1)]

\* What sceneOp keeps of an operation on the Scene.
SceneOp(name, index, key, obj, ret, found, threw) ==
    [name |-> name, index |-> index, key |-> key, obj |-> obj,
     pre |-> objects, preUnloads |-> modelUnloads,
     ret |-> ret, found |-> found, threw |-> threw]

\* ------------------------------------------- SceneManager: public operations

\* Mutant: the null test left out.
RegisterRejectsNever(scene) == FALSE

\* registerScene: if (!scene) { return; }
RegisterRejects(scene) == scene = NullScene

\* Mutant: the first-scene test made on the size before the push_back.
RegisterActivatesBeforePush(size) == size = 0

\* Mutant: every registration activates index 0.
RegisterActivatesAlways(size) == size >= 1

\* registerScene: if (scenes.size() == 1) activateScene(0);
RegisterActivates(size) == size = 1

\* Mutant: the scene is inserted at the front of the registry.
PushFront(sc, scene) == <<scene>> \o sc

\* registerScene: scenes.push_back(std::move(scene));
PushBack(sc, scene) == Append(sc, scene)

\* Mutant: an out-of-range index clamped to the last scene instead of rejected.
SwitchTargetClamped(index, size) ==
    IF index >= size THEN (IF size = 0 THEN NoneActive ELSE size - 1) ELSE index

\* switchToScene: the index handed to activateScene, or NoneActive when
\* `if (index >= scenes.size()) return;` rejects the request (activateScene
\* rejects NoneActive as well, since it is not below any size).
SwitchTarget(index, size) == IF index >= size THEN NoneActive ELSE index

\* Mutant: the successor computed with a stride of two.
NextIndexSkips(cur, size) == ((cur + 2) % SizeModulus) % size

\* switchToNextScene: (currentSceneIndex + 1) % scenes.size(), in size_t.
NextIndex(cur, size) == ((cur + 1) % SizeModulus) % size

\* Mutant: no wrap-around from index 0 to the last scene.
PrevIndexNoWrap(cur, size) == IF cur = 0 THEN 0 ELSE cur - 1

\* switchToPreviousScene: (currentSceneIndex == 0) ? scenes.size() - 1
\*                                                 : currentSceneIndex - 1.
PrevIndex(cur, size) == IF cur = 0 THEN size - 1 ELSE cur - 1

\* The record kept of an operation: its name and argument, the state it
\* started from, the calls it made and whether an exception left it.
Op(name, arg, trace, threw) ==
    [name |-> name, arg |-> arg, preIndex |-> currentSceneIndex,
     preScenes |-> scenes, preLife |-> lifecycle, trace |-> trace, threw |-> threw]

\* What prevOp keeps of an operation.
Summary(op) == [name |-> op.name, preIndex |-> op.preIndex, clean |-> NoFault(op.trace)]

\* The bookkeeping every operation does on the history variables.
Record(op) ==
    /\ lastOp' = op
    /\ prevOp' = Summary(lastOp)
    /\ lifecycle' = ApplyTrace(lifecycle, op.trace)
    /\ UNCHANGED <<bulletVars, sceneVars>>

\* The window of active indices along consecutive fault-free
\* switchToNextScene calls: at most size + 1 entries (size calls).
ExtendRun(run, pre, post, size) ==
    LET r == IF run = <<>> THEN <<pre, post>> ELSE Append(run, post)
    IN IF Len(r) > size + 1 THEN Tail(r) ELSE r

Init ==
    /\ scenes = <<>>
    /\ currentSceneIndex = NoneActive
    /\ lifecycle = [s \in SceneIds |-> "never"]
    /\ lastOp = [name |-> "construct", arg |-> NullScene, preIndex |-> NoneActive,
                 preScenes |-> <<>>, preLife |-> [s \in SceneIds |-> "never"],
                 trace |-> <<>>, threw |-> FALSE]
    /\ prevOp = [name |-> "none", preIndex |-> NoneActive, clean |-> TRUE]
    /\ nextRun = <<>>
    /\ bps = BpsNew
    /\ resLog = <<>>
    /\ bpsOp = [name |-> "construct", pre |-> BpsNew, preLog |-> <<>>]
    /\ objects = <<>>
    /\ sceneAlive = TRUE
    /\ modelUnloads = <<>>
    /\ sceneOp = [name |-> "construct", index |-> 0, key |-> "",
                  obj |-> SceneObject(NoModel), pre |-> <<>>, preUnloads |-> <<>>,
                  ret |-> 0, found |-> FALSE, threw |-> FALSE]

\* registerScene(scene)
RegisterScene(scene, inf, rf) ==
    IF RegisterRejects(scene)
    THEN /\ UNCHANGED <<scenes, currentSceneIndex>>
         /\ Record(Op("registerScene", scene, <<>>, FALSE))
         /\ nextRun' = <<>>
    ELSE /\ Len(scenes) < MaxScenes
         /\ LET sc == PushBack(scenes, scene)
                r == IF RegisterActivates(Len(sc))
                     THEN ActivateScene(sc, currentSceneIndex, 0, "none", inf, rf)
                     ELSE Result(currentSceneIndex, <<>>, FALSE)
            IN /\ scenes' = sc
               /\ currentSceneIndex' = r.index
               /\ Record(Op("registerScene", scene, r.trace, r.threw))
               /\ nextRun' = <<>>

\* switchToScene(index)
SwitchToScene(index, cf, inf, rf) ==
    LET target == SwitchTarget(index, Len(scenes))
        r == IF target = NoneActive THEN Result(currentSceneIndex, <<>>, FALSE)
             ELSE ActivateScene(scenes, currentSceneIndex, target, cf, inf, rf)
    IN /\ currentSceneIndex' = r.index
       /\ Record(Op("switchToScene", index, r.trace, r.threw))
       /\ nextRun' = <<>>
       /\ UNCHANGED scenes

\* switchToNextScene()
SwitchToNextScene(cf, inf, rf) ==
    IF Len(scenes) = 0
    THEN /\ Record(Op("switchToNextScene", 0, <<>>, FALSE))
         /\ nextRun' = <<>>
         /\ UNCHANGED <<scenes, currentSceneIndex>>
    ELSE LET reset == currentSceneIndex >= Len(scenes)
             cur == IF reset THEN 0 ELSE currentSceneIndex
             t0 == IF reset THEN <<Ev("setIndex", 0, SceneAt(scenes, 0), "none")>> ELSE <<>>
             nextIndex == NextIndex(cur, Len(scenes))
             r == IF nextIndex >= Len(scenes)
                  THEN ActivateScene(scenes, cur, 0, cf, inf, rf)
                  ELSE ActivateScene(scenes, cur, nextIndex, cf, inf, rf)
             trace == t0 \o r.trace
         IN /\ currentSceneIndex' = r.index
            /\ Record(Op("switchToNextScene", 0, trace, r.threw))
            /\ nextRun' = IF NoFault(trace) /\ ~r.threw
                          THEN ExtendRun(nextRun, currentSceneIndex, r.index, Len(scenes))
                          ELSE <<>>
            /\ UNCHANGED scenes

\* switchToPreviousScene()
SwitchToPreviousScene(cf, inf, rf) ==
    IF Len(scenes) = 0
    THEN /\ Record(Op("switchToPreviousScene", 0, <<>>, FALSE))
         /\ nextRun' = <<>>
         /\ UNCHANGED <<scenes, currentSceneIndex>>
    ELSE LET prevIndex == PrevIndex(currentSceneIndex, Len(scenes))
             r == ActivateScene(scenes, currentSceneIndex, prevIndex, cf, inf, rf)
         IN /\ currentSceneIndex' = r.index
            /\ Record(Op("switchToPreviousScene", 0, r.trace, r.threw))
            /\ nextRun' = <<>>
            /\ UNCHANGED scenes

\* Mutant: the call is made without the null test on getCurrentScene().
ForwardUnchecked(call, sc, cur) ==
    <<[ev |-> call, at |-> cur, scene |-> GetCurrentScene(sc, cur), out |-> "none"]>>

\* Mutant: the call is forwarded twice.
ForwardTwice(call, sc, cur) ==
    LET scene == GetCurrentScene(sc, cur)
    IN IF scene # NullScene
       THEN <<Ev(call, cur, scene, "none"), Ev(call, cur, scene, "none")>>
       ELSE <<>>

\* The call update() / draw() forwards: one call on the current scene, if any.
Forward(call, sc, cur) ==
    LET scene == GetCurrentScene(sc, cur)
    IN IF scene # NullScene THEN <<Ev(call, cur, scene, "none")>> ELSE <<>>

\* update()
Update ==
    /\ Record(Op("update", 0, Forward("update", scenes, currentSceneIndex), FALSE))
    /\ nextRun' = <<>>
    /\ UNCHANGED <<scenes, currentSceneIndex>>

\* draw()
Draw ==
    /\ Record(Op("draw", 0, Forward("draw", scenes, currentSceneIndex), FALSE))
    /\ nextRun' = <<>>
    /\ UNCHANGED <<scenes, currentSceneIndex>>

\* The outcomes <<cf, inf, rf>> of the lifecycle calls of one activation: a
\* call that follows a throwing one is made only in the recovery, so the
\* target's initialize has an outcome of its own only after a cleanup that
\* returned, and the recovery initialize only after an initialize that threw.
FaultScripts ==
    {f \in Faults \X Faults \X Faults :
        /\ f[1] # "none" => f[2] = "none"
        /\ f[2] = "none" => f[3] = "none"}

Next ==
    \/ \E scene \in {NullScene, Len(scenes) + 1}, f \in FaultScripts :
          RegisterScene(scene, f[2], f[3])
    \/ \E index \in IndexArgs, f \in FaultScripts : SwitchToScene(index, f[1], f[2], f[3])
    \/ \E f \in FaultScripts : SwitchToNextScene(f[1], f[2], f[3])
    \/ \E f \in FaultScripts : SwitchToPreviousScene(f[1], f[2], f[3])
    \/ Update
    \/ Draw

Spec == Init /\ [][Next]_vars

\* ------------------------------------------- BulletPhysicsScene: operations

\* The sets of box indices whose model IsModelValid may reject.
InvalidBoxSets == {b \in SUBSET (0 .. kBoxCount - 1) : Cardinality(b) <= MaxInvalidBoxes}

\* The bookkeeping of an operation on the BulletPhysicsScene object.
BpsRecord(name, st) ==
    /\ bps' = st.o
    /\ resLog' = st.log
    /\ bpsOp' = [name |-> name, pre |-> bps, preLog |-> resLog]
    /\ UNCHANGED <<managerVars, sceneVars>>

\* initialize()
BpsInitialize(groundValid, invalid) ==
    /\ bps.alive
    /\ BpsRecord("initialize", BpsInitialized(bps, resLog, groundValid, invalid))

\* cleanup()
BpsCleanup ==
    /\ bps.alive
    /\ BpsRecord("cleanup", BpsCleaned(bps, resLog))

\* update(): steps the simulation when initialized; no field changes.
BpsUpdate ==
    /\ bps.alive
    /\ BpsRecord("update", St(bps, resLog))

\* draw() const: no field changes.
BpsDraw ==
    /\ bps.alive
    /\ BpsRecord("draw", St(bps, resLog))

\* ~BulletPhysicsScene(): cleanup(), then the object is gone.
BpsDestroy ==
    /\ bps.alive
    /\ LET st == BpsCleaned(bps, resLog)
       IN BpsRecord("destroy", St([st.o EXCEPT !.alive = FALSE], st.log))

BulletNext ==
    \/ \E groundValid \in BOOLEAN, invalid \in InvalidBoxSets :
          BpsInitialize(groundValid, invalid)
    \/ BpsCleanup
    \/ BpsUpdate
    \/ BpsDraw
    \/ BpsDestroy

SpecBullet == Init /\ [][BulletNext]_vars

\* -------------------------------------------------------- Scene: operations

\* The bookkeeping of an operation on the Scene object.
SceneRecord(op, objs, unl) ==
    /\ sceneOp' = op
    /\ objects' = objs
    /\ modelUnloads' = unl
    /\ UNCHANGED <<managerVars, bulletVars>>

\* Both overloads end the same way: push_back, then the return value.  The
\* caller hands over a model no other object holds.
AddObject(name, obj) ==
    /\ sceneAlive
    /\ Len(modelUnloads) < MaxAdds
    /\ LET objs == Append(objects, obj)
       IN SceneRecord(SceneOp(name, 0, obj.name, obj, AddReturn(Len(objs)), FALSE, FALSE),
                      objs, Append(modelUnloads, 0))
    /\ UNCHANGED sceneAlive

\* addObject(model, position, scale, name)
SceneAddObject(position, scale, name) ==
    AddObject("addObject", ObjectDefault(Len(modelUnloads) + 1, position, scale, name))

\* addObject(model, position, rotation, scale, name)
SceneAddObjectRotated(position, rotation, scale, name) ==
    AddObject("addObjectRotated",
              ObjectRotated(Len(modelUnloads) + 1, position, rotation, scale, name))

\* getObject(index)
SceneGetObject(index) ==
    /\ sceneAlive
    /\ LET r == ObjectAt(objects, index)
       IN SceneRecord(SceneOp("getObject", index, "", r.obj, 0, ~r.threw, r.threw),
                      objects, modelUnloads)
    /\ UNCHANGED sceneAlive

\* findObjectByName(name): a pointer to the first match, or nullptr.
SceneFindObjectByName(name) ==
    /\ sceneAlive
    /\ LET iterator == FindIf(objects, name)
           r == ObjectAt(objects, iterator)
       IN SceneRecord(SceneOp("findObjectByName", 0, name, r.obj, iterator,
                              iterator # Len(objects), FALSE),
                      objects, modelUnloads)
    /\ UNCHANGED sceneAlive

\* removeObject(index)
SceneRemoveObject(index) ==
    /\ sceneAlive
    /\ LET r == RemovedObject(objects, modelUnloads, index)
       IN SceneRecord(SceneOp("removeObject", index, "", SceneObject(NoModel), 0,
                              FALSE, FALSE),
                      r.objects, r.unloads)
    /\ UNCHANGED sceneAlive

\* removeObjectByName(name)
SceneRemoveObjectByName(name) ==
    /\ sceneAlive
    /\ LET r == RemovedObjectByName(objects, modelUnloads, name)
       IN SceneRecord(SceneOp("removeObjectByName", 0, name, SceneObject(NoModel), 0,
                              r.ret, FALSE),
                      r.objects, r.unloads)
    /\ UNCHANGED sceneAlive

\* clear()
SceneClear ==
    /\ sceneAlive
    /\ LET r == Cleared(objects, modelUnloads)
       IN SceneRecord(SceneOp("clear", 0, "", SceneObject(NoModel), 0, FALSE, FALSE),
                      r.objects, r.unloads)
    /\ UNCHANGED sceneAlive

\* ~Scene(): clear(), then the object is gone.
SceneDestroy ==
    /\ sceneAlive
    /\ LET r == Cleared(objects, modelUnloads)
       IN SceneRecord(SceneOp("destroy", 0, "", SceneObject(NoModel), 0, FALSE, FALSE),
                      r.objects, r.unloads)
    /\ sceneAlive' = FALSE

SceneNext ==
    \/ \E position \in PositionArgs, scale \in ScaleArgs, name \in NameArgs :
          SceneAddObject(position, scale, name)
    \/ \E position \in PositionArgs, rotation \in VectorArgs, scale \in ScaleArgs,
          name \in NameArgs :
          SceneAddObjectRotated(position, rotation, scale, name)
    \/ \E index \in ObjectIndexArgs : SceneGetObject(index)
    \/ \E name \in NameArgs : SceneFindObjectByName(name)
    \/ \E index \in ObjectIndexArgs : SceneRemoveObject(index)
    \/ \E name \in NameArgs : SceneRemoveObjectByName(name)
    \/ SceneClear
    \/ SceneDestroy

SpecScene == Init /\ [][SceneNext]_vars

\* ------------------------------------------------------------------ claims

TransitionOps == {"switchToScene", "switchToNextScene", "switchToPreviousScene"}

\* The calls of initialize / cleanup the last operation made.
Inits == Calls(lastOp.trace, "initialize")

Cleanups == Calls(lastOp.trace, "cleanup")

\* The last operation registered a non-null scene on an empty controller.
FirstRegistration ==
    /\ lastOp.name = "registerScene"
    /\ lastOp.preScenes = <<>>
    /\ lastOp.arg # NullScene

\* C1: after registerScene of one non-null scene on an empty SceneManager,
\* getCurrentScene returns that scene and the active index is 0, whether or
\* not the scene's initialize throws.
C1_FirstSceneIsCurrent ==
    FirstRegistration =>
        /\ currentSceneIndex = 0
        /\ GetCurrentScene(scenes, currentSceneIndex) = lastOp.arg

\* C1 witness: a first registration whose initialize threw (primary and
\* recovery), with the scene reported as current.
C1_Witness ==
    /\ FirstRegistration
    /\ Len(Inits) = 2 /\ ~Ok(Inits[1]) /\ ~Ok(Inits[2])
    /\ GetCurrentScene(scenes, currentSceneIndex) = lastOp.arg

\* C2: the first registration runs the activation procedure for index 0: the
\* controller starts from a none-active index different from 0, no cleanup is
\* invoked, the index is written to 0 and then initialize is invoked on the
\* registered scene, exactly once when it does not throw.
C2_FirstRegistrationInitializes ==
    FirstRegistration =>
        /\ lastOp.preIndex # 0
        /\ lastOp.preIndex >= Len(lastOp.preScenes)
        /\ Cleanups = <<>>
        /\ Len(lastOp.trace) >= 2
        /\ lastOp.trace[1].ev = "setIndex" /\ lastOp.trace[1].at = 0
        /\ lastOp.trace[2].ev = "initialize" /\ lastOp.trace[2].scene = lastOp.arg
        /\ \A k \in 1 .. Len(Inits) : Inits[k].scene = lastOp.arg
        /\ Ok(Inits[1]) => Len(Inits) = 1

\* C2 witness: a first registration whose initialize returned normally.
C2_Witness ==
    /\ FirstRegistration
    /\ Len(Inits) = 1 /\ Ok(Inits[1])
    /\ lifecycle[lastOp.arg] = "init_ok"

\* Size of the registry the last operation worked on.
PreSize == Len(lastOp.preScenes)

\* The successor of index i in a registry of n scenes.
Succ(i, n) == (i + 1) % n

\* C3 as stated: every switchToNextScene on a non-empty registry moves the
\* active index to (i + 1) mod N.
C3_Original ==
    (lastOp.name = "switchToNextScene" /\ PreSize >= 1) =>
        currentSceneIndex = Succ(lastOp.preIndex, PreSize)

\* C3 amended: a switchToNextScene during which no cleanup or initialize
\* throws moves the active index from i to (i + 1) mod N, and N consecutive
\* such calls return it to i; when the old scene's cleanup throws the index
\* stays i, and when the target's initialize throws it ends at 0.
C3_NextAdvancesUnlessFault ==
    /\ (lastOp.name = "switchToNextScene" /\ PreSize >= 1) =>
          /\ NoFault(lastOp.trace) => currentSceneIndex = Succ(lastOp.preIndex, PreSize)
          /\ (Cleanups # <<>> /\ ~Ok(Cleanups[1])) => currentSceneIndex = lastOp.preIndex
          /\ (Inits # <<>> /\ ~Ok(Inits[1])) => currentSceneIndex = 0
    /\ nextRun # <<>> =>
          /\ lastOp.name = "switchToNextScene"
          /\ nextRun[Len(nextRun)] = currentSceneIndex
          /\ \A j \in 1 .. Len(nextRun) - 1 : nextRun[j + 1] = Succ(nextRun[j], Len(scenes))
          /\ Len(nextRun) = Len(scenes) + 1 => nextRun[Len(nextRun)] = nextRun[1]

\* C3 witness: with three scenes, three consecutive fault-free calls from
\* index 0 visit 1, 2 and wrap to 0.
C3_Witness ==
    /\ Len(scenes) = 3
    /\ nextRun = <<0, 1, 2, 0>>

\* The last two operations were switchToNextScene then switchToPreviousScene.
NextThenPrevious ==
    /\ prevOp.name = "switchToNextScene"
    /\ lastOp.name = "switchToPreviousScene"
    /\ PreSize >= 1

\* C4 as stated: switchToNextScene followed by switchToPreviousScene leaves
\* the active index where it was.
C4_Original == NextThenPrevious => currentSceneIndex = prevOp.preIndex

\* C4 amended: when no cleanup or initialize throws during the two calls,
\* switchToNextScene followed by switchToPreviousScene leaves the active
\* index where it was; a fault-free switchToPreviousScene moves index 0 to
\* N - 1 and index i > 0 to i - 1.
C4_PreviousInvertsNextUnlessFault ==
    /\ (NextThenPrevious /\ prevOp.clean /\ NoFault(lastOp.trace)) =>
          currentSceneIndex = prevOp.preIndex
    /\ (lastOp.name = "switchToPreviousScene" /\ PreSize >= 1 /\ NoFault(lastOp.trace)) =>
          currentSceneIndex =
              IF lastOp.preIndex = 0 THEN PreSize - 1 ELSE lastOp.preIndex - 1

\* C4 witness: from the last of three scenes, next wraps to 0 and previous
\* wraps back to 2, both fault-free.
C4_Witness ==
    /\ NextThenPrevious /\ prevOp.clean /\ NoFault(lastOp.trace)
    /\ PreSize = 3
    /\ prevOp.preIndex = 2 /\ lastOp.preIndex = 0 /\ currentSceneIndex = 2

\* C5: switchToScene(index) with index >= number of registered scenes
\* changes neither the active index nor the registry and invokes nothing.
C5_OutOfRangeSwitchIsNoOp ==
    (lastOp.name = "switchToScene" /\ lastOp.arg >= PreSize) =>
        /\ currentSceneIndex = lastOp.preIndex
        /\ scenes = lastOp.preScenes
        /\ lastOp.trace = <<>>

\* C5 witness: switchToScene(size) on a controller holding two scenes with
\* scene 0 active (the index one past the end).
C5_Witness ==
    /\ lastOp.name = "switchToScene"
    /\ PreSize = 2 /\ lastOp.arg = 2
    /\ lastOp.preIndex = 0 /\ currentSceneIndex = 0

\* The last operation asked for the activation of the index already active.
SameIndexRequest ==
    \/ /\ lastOp.name = "switchToScene"
       /\ lastOp.arg < PreSize
       /\ lastOp.arg = lastOp.preIndex
    \/ /\ lastOp.name \in {"switchToNextScene", "switchToPreviousScene"}
       /\ PreSize = 1

\* C6: a request to activate the index that is already active (switchToScene
\* of the current index, or next / previous in a one-scene registry) leaves
\* the active index unchanged and invokes neither cleanup nor initialize.
C6_SameIndexIsNoOp ==
    SameIndexRequest =>
        /\ currentSceneIndex = lastOp.preIndex
        /\ lastOp.trace = <<>>

\* C6 witness: switchToScene(1) while scene 1 of two is active and initialized.
C6_Witness ==
    /\ lastOp.name = "switchToScene"
    /\ PreSize = 2 /\ lastOp.arg = 1 /\ lastOp.preIndex = 1
    /\ lifecycle[scenes[2]] = "init_ok"
    /\ currentSceneIndex = 1

\* The last operation was a transition attempt in which the active scene's
\* cleanup threw.
CleanupFaulted ==
    /\ lastOp.name \in TransitionOps
    /\ Cleanups # <<>>
    /\ ~Ok(Cleanups[1])

\* C7: when the active scene's cleanup throws during a transition attempt,
\* the transition is aborted: the active index stays at the pre-transition
\* scene and initialize is invoked on no scene.
C7_CleanupFaultAborts ==
    CleanupFaulted =>
        /\ Cleanups[1].at = lastOp.preIndex
        /\ currentSceneIndex = lastOp.preIndex
        /\ Inits = <<>>
        /\ Calls(lastOp.trace, "setIndex") = <<>>

\* C7 witness: switchToPreviousScene from scene 1 of three whose cleanup
\* threw; scene 1 is still current.
C7_Witness ==
    /\ CleanupFaulted
    /\ lastOp.name = "switchToPreviousScene"
    /\ PreSize = 3 /\ lastOp.preIndex = 1
    /\ currentSceneIndex = 1
    /\ lifecycle[scenes[2]] = "cleanup_fault"

\* The last operation was a transition to an index k # 0 whose initialize
\* threw (so the old scene's cleanup had returned normally).
TargetInitFaulted ==
    /\ lastOp.name \in TransitionOps
    /\ Inits # <<>>
    /\ Inits[1].at # 0
    /\ ~Ok(Inits[1])

\* C8: when the target's initialize throws in a transition to scene k # 0,
\* the controller ends with active index 0 and scene 0's initialize has been
\* invoked exactly once, as the last call, whether or not it throws.
C8_InitFaultFallsBackToZero ==
    TargetInitFaulted =>
        /\ Cleanups # <<>> /\ Ok(Cleanups[1])
        /\ currentSceneIndex = 0
        /\ Len(SelectSeq(Inits, LAMBDA e : e.at = 0)) = 1
        /\ Len(Inits) = 2
        /\ lastOp.trace[Len(lastOp.trace)].ev = "initialize"
        /\ lastOp.trace[Len(lastOp.trace)].at = 0
        /\ lastOp.trace[Len(lastOp.trace)].scene = scenes[1]

\* C8 witness: a transition to scene 2 whose initialize threw and whose
\* recovery initialize of scene 0 threw as well.
C8_Witness ==
    /\ TargetInitFaulted
    /\ Inits[1].at = 2
    /\ Len(Inits) = 2 /\ ~Ok(Inits[2])
    /\ currentSceneIndex = 0

\* C9: no exception thrown by a scene's cleanup or initialize leaves
\* registerScene, switchToScene, switchToNextScene or switchToPreviousScene.
C9_NoFaultPropagates ==
    lastOp.name \in TransitionOps \cup {"registerScene"} => ~lastOp.threw

\* C9 witness: a transition in which the target's initialize and the recovery
\* initialize both threw something that is no std::exception, and the
\* operation returned.
C9_Witness ==
    /\ lastOp.name \in TransitionOps
    /\ Len(Inits) = 2
    /\ Inits[1].out = "other" /\ Inits[2].out = "other"
    /\ ~lastOp.threw

\* The last operation was update() or draw() and forwarded to a scene.
Forwarded ==
    /\ lastOp.name \in {"update", "draw"}
    /\ lastOp.trace # <<>>

\* C10 as stated: update / draw forward only to a scene whose most recent
\* lifecycle call was an initialize that returned normally.
C10_Original ==
    Forwarded => lifecycle[lastOp.trace[1].scene] = "init_ok"

\* C10 amended: update / draw forward only to a scene on which initialize
\* has been invoked and whose most recent lifecycle call was an initialize
\* that returned normally, or a cleanup that threw (the aborted transition
\* leaves it active), or, for the scene at index 0 only, an initialize that
\* threw; never to a scene whose cleanup returned normally last.
C10_ForwardsToInitializedOrFaulted ==
    Forwarded =>
        LET s == lastOp.trace[1].scene
        IN /\ s = scenes[currentSceneIndex + 1]
           /\ \/ lifecycle[s] \in {"init_ok", "cleanup_fault"}
              \/ lifecycle[s] = "init_fault" /\ currentSceneIndex = 0

\* C10 witness: update forwarded to scene 0 after its initialize threw.
C10_Witness ==
    /\ Forwarded
    /\ lastOp.name = "update"
    /\ currentSceneIndex = 0
    /\ lifecycle[lastOp.trace[1].scene] = "init_fault"

\* Positions of the events of kind `ev` in the last operation's trace.
Positions(ev) == {k \in 1 .. Len(lastOp.trace) : lastOp.trace[k].ev = ev}

\* The last operation started with a valid active index.
HadActive == lastOp.preIndex < PreSize

\* C11: in an activation that moves the active index away from a valid index
\* i, the cleanup of scene i has returned normally before currentSceneIndex
\* is written, and initialize is invoked on a scene only right after the
\* index has been written to that scene's position: cleanup(old), index
\* write, initialize(new).
C11_CleanupThenIndexThenInitialize ==
    LET t == lastOp.trace
        writes == Positions("setIndex")
    IN /\ currentSceneIndex =
             IF writes = {} THEN lastOp.preIndex
             ELSE t[CHOOSE k \in writes : \A j \in writes : j <= k].at
       /\ \A k \in writes :
             HadActive =>
                 \E c \in Positions("cleanup") :
                     /\ c < k
                     /\ Ok(t[c])
                     /\ t[c].at = lastOp.preIndex
                     /\ t[c].scene = lastOp.preScenes[lastOp.preIndex + 1]
       /\ \A k \in Positions("initialize") :
             /\ k > 1
             /\ t[k - 1].ev = "setIndex"
             /\ t[k - 1].at = t[k].at
             /\ t[k].scene = scenes[t[k].at + 1]

\* C11 witness: switchToScene(2) from scene 1 of three, fault-free: cleanup
\* of scene 1, index written to 2, initialize of scene 2.
C11_Witness ==
    /\ lastOp.name = "switchToScene"
    /\ lastOp.preIndex = 1 /\ lastOp.arg = 2 /\ currentSceneIndex = 2
    /\ Len(lastOp.trace) = 3
    /\ lastOp.trace[1].ev = "cleanup" /\ lastOp.trace[1].at = 1 /\ Ok(lastOp.trace[1])
    /\ lastOp.trace[2].ev = "setIndex" /\ lastOp.trace[2].at = 2
    /\ lastOp.trace[3].ev = "initialize" /\ lastOp.trace[3].at = 2

\* C12 as stated: cleanup is never invoked on a scene whose most recent
\* lifecycle call was a cleanup, and initialize is never invoked on the scene
\* that was active when the activation was requested.
C12_Original ==
    /\ \A c \in Positions("cleanup") :
          lastOp.preLife[lastOp.trace[c].scene] \notin {"cleanup_ok", "cleanup_fault"}
    /\ \A k \in Positions("initialize") :
          ~(HadActive /\ lastOp.trace[k].at = lastOp.preIndex)

\* C12 amended: cleanup is never invoked on a scene whose most recent
\* lifecycle call was a cleanup that returned normally (after a cleanup that
\* threw, the scene stays active and the next transition attempt invokes its
\* cleanup again); and initialize is invoked on the scene that was active
\* when the activation was requested only as the fallback to scene 0, after
\* that scene's cleanup has returned normally in the same activation.
C12_NoSecondTeardownNoInitWhileActive ==
    LET t == lastOp.trace
    IN /\ \A c \in Positions("cleanup") :
             lastOp.preLife[t[c].scene] \in {"init_ok", "init_fault", "cleanup_fault"}
       /\ \A k \in Positions("initialize") :
             (HadActive /\ t[k].at = lastOp.preIndex) =>
                 /\ t[k].at = 0
                 /\ k = Len(t)
                 /\ Len(Inits) = 2 /\ ~Ok(Inits[1])
                 /\ \E c \in Positions("cleanup") :
                       c < k /\ Ok(t[c]) /\ t[c].scene = t[k].scene

\* C12 witness: a transition away from scene 0 whose target's initialize
\* threw, so that scene 0 was cleaned up and then initialized again as the
\* fallback, its cleanup having thrown at an earlier attempt.
C12_Witness ==
    /\ lastOp.name \in TransitionOps
    /\ lastOp.preIndex = 0
    /\ lastOp.preLife[scenes[1]] = "cleanup_fault"
    /\ Cleanups # <<>> /\ Ok(Cleanups[1])
    /\ Len(Inits) = 2 /\ Inits[2].at = 0
    /\ currentSceneIndex = 0

\* C13: an operation makes at most one cleanup call and at most two
\* initialize calls, the second being the recovery initialize of scene 0
\* after the target's threw; when both throw the controller is left at index
\* 0 and nothing more is called.
C13_BoundedLifecycleCalls ==
    /\ Len(Cleanups) <= 1
    /\ Len(Inits) <= 2
    /\ Len(Inits) = 2 =>
          /\ ~Ok(Inits[1])
          /\ Inits[2].at = 0
          /\ lastOp.trace[Len(lastOp.trace)] = Inits[2]
          /\ currentSceneIndex = 0
    /\ (Inits # <<>> /\ ~Ok(Inits[1])) => Len(Inits) = 2

\* C13 witness: a transition whose target initialize and recovery initialize
\* both threw: one cleanup, two initialize calls, index 0.
C13_Witness ==
    /\ lastOp.name \in TransitionOps
    /\ Len(Cleanups) = 1
    /\ Len(Inits) = 2 /\ ~Ok(Inits[1]) /\ ~Ok(Inits[2])
    /\ Inits[1].at # 0
    /\ currentSceneIndex = 0

\* C14: with no scene registered, getCurrentScene returns null, update and
\* draw invoke nothing, and switchToNextScene, switchToPreviousScene and
\* switchToScene(i) leave the active index unchanged and invoke nothing.
C14_EmptyControllerIsInert ==
    /\ scenes = <<>> => GetCurrentScene(scenes, currentSceneIndex) = NullScene
    /\ (PreSize = 0 /\ lastOp.name \in TransitionOps \cup {"update", "draw"}) =>
          /\ lastOp.trace = <<>>
          /\ currentSceneIndex = lastOp.preIndex
          /\ scenes = <<>>
          /\ lifecycle = lastOp.preLife

\* C14 witness: switchToScene(0) on the empty controller, after an update on
\* the empty controller.
C14_Witness ==
    /\ scenes = <<>>
    /\ prevOp.name = "update"
    /\ lastOp.name = "switchToScene" /\ lastOp.arg = 0
    /\ GetCurrentScene(scenes, currentSceneIndex) = NullScene

\* C15: registerScene(null) changes nothing in any state: registry size and
\* contents and the active index are unchanged and nothing is invoked; on an
\* empty controller the registry stays empty, so the next non-null
\* registration is still the first.
C15_NullRegistrationIsNoOp ==
    (lastOp.name = "registerScene" /\ lastOp.arg = NullScene) =>
        /\ scenes = lastOp.preScenes
        /\ currentSceneIndex = lastOp.preIndex
        /\ lastOp.trace = <<>>
        /\ lifecycle = lastOp.preLife

\* C15 witness: registerScene(null) on the empty controller.
C15_Witness ==
    /\ lastOp.name = "registerScene" /\ lastOp.arg = NullScene
    /\ lastOp.preScenes = <<>> /\ scenes = <<>>
    /\ currentSceneIndex = NoneActive

\* C16: the registry is append-only: the scene registered k-th (scenes are
\* named by registration order) is at position k, a non-null registerScene
\* appends its scene, and no other operation changes the registry.
C16_RegistryAppendOnly ==
    /\ \A k \in 1 .. Len(scenes) : scenes[k] = k
    /\ Len(scenes) >= PreSize
    /\ \A k \in 1 .. PreSize : scenes[k] = lastOp.preScenes[k]
    /\ (lastOp.name = "registerScene" /\ lastOp.arg # NullScene) =>
          scenes = Append(lastOp.preScenes, lastOp.arg)
    /\ lastOp.name # "registerScene" => scenes = lastOp.preScenes

\* C16 witness: three scenes registered, with transitions in between, the
\* last operation being a transition.
C16_Witness ==
    /\ scenes = <<1, 2, 3>>
    /\ lastOp.name = "switchToPreviousScene"
    /\ lastOp.preScenes = <<1, 2, 3>>
    /\ currentSceneIndex = 1

\* The last operation on the BulletPhysicsScene was a cleanup that ran (the
\* object was initialized).
CleanupRan == bpsOp.name = "cleanup" /\ bpsOp.pre.isInitialized

\* C17: BulletPhysicsScene's initialize and cleanup are idempotent:
\* initialize on an initialized object and cleanup on an uninitialized one
\* change no field and acquire / release nothing, so a second initialize
\* after an initialize, or a second cleanup after a cleanup, changes nothing.
C17_LifecycleIdempotent ==
    /\ (bpsOp.name = "initialize" /\ bpsOp.pre.isInitialized) =>
          bps = bpsOp.pre /\ resLog = bpsOp.preLog
    /\ (bpsOp.name = "cleanup" /\ ~bpsOp.pre.isInitialized) =>
          bps = bpsOp.pre /\ resLog = bpsOp.preLog
    /\ bpsOp.name = "initialize" =>
          \A groundValid \in BOOLEAN, invalid \in InvalidBoxSets :
              BpsInitialized(bps, resLog, groundValid, invalid) = St(bps, resLog)
    /\ bpsOp.name = "cleanup" => BpsCleaned(bps, resLog) = St(bps, resLog)

\* C17 witness: initialize called on an initialized object holding the
\* ground object and the boxes.
C17_Witness ==
    /\ bpsOp.name = "initialize"
    /\ bpsOp.pre.isInitialized
    /\ bps.isInitialized
    /\ Len(bps.physicsObjects) > 1
    /\ bps.dynamicsWorld # NullPtr

\* C18: after initialize followed by cleanup, every resource initialize
\* acquired (each loaded model, each pointer it allocated) has been released
\* exactly once, and nothing else has been released.
C18_ReleasedExactlyOnce ==
    CleanupRan =>
        \A k \in 1 .. Len(resLog) :
            LET e == resLog[k]
            IN /\ e.what = "load" => Count(resLog, "unload", e.id) = 1
               /\ e.what = "new" => Count(resLog, "delete", e.id) = 1
               /\ e.what = "unload" => Count(resLog, "load", e.id) = 1
               /\ e.what = "delete" => Count(resLog, "new", e.id) = 1

\* --------------------------------------------------------- claims on Scene

\* The last operation was one of the two addObject overloads.
Added == sceneOp.name \in {"addObject", "addObjectRotated"}

\* C19: addObject (either overload) returns the object count before the
\* call, raises the count by exactly one, getObject(returned index) yields
\* the object just added (the model handed over, under the name given), and
\* every object added earlier keeps its index and its contents.
C19_AddObjectAppendsAndReturnsIndex ==
    Added =>
        LET got == ObjectAt(objects, sceneOp.ret)
        IN /\ sceneOp.ret = Len(sceneOp.pre)
           /\ Len(objects) = Len(sceneOp.pre) + 1
           /\ ~got.threw
           /\ got.obj = sceneOp.obj
           /\ got.obj.model = Len(sceneOp.preUnloads) + 1
           /\ got.obj.name = sceneOp.key
           /\ sceneOp.name = "addObject" => got.obj.rotation = "zero"
           /\ \A k \in 1 .. Len(sceneOp.pre) : objects[k] = sceneOp.pre[k]

\* C19 witness: the rotation overload has added a named third object.
C19_Witness ==
    /\ sceneOp.name = "addObjectRotated"
    /\ Len(sceneOp.pre) = 2
    /\ sceneOp.ret = 2
    /\ sceneOp.key = "a"
    /\ objects[3].rotation = "v"

\* C20: removeObject(index) with index below the count removes exactly the
\* object at that index, unloads that object's model once and no other
\* model, lowers the count by one and moves every later object down one
\* position in order; with index at or above the count nothing is removed,
\* nothing is unloaded and nothing is thrown.
C20_RemoveObjectByIndex ==
    sceneOp.name = "removeObject" =>
        LET pre == sceneOp.pre
            index == sceneOp.index
        IN /\ ~sceneOp.threw
           /\ index < Len(pre) =>
                  /\ Len(objects) = Len(pre) - 1
                  /\ \A k \in 1 .. index : objects[k] = pre[k]
                  /\ \A k \in index + 1 .. Len(pre) - 1 : objects[k] = pre[k + 1]
                  /\ modelUnloads =
                         [sceneOp.preUnloads EXCEPT ![pre[index + 1].model] = @ + 1]
                  /\ modelUnloads[pre[index + 1].model] = 1
           /\ index >= Len(pre) =>
                  /\ objects = pre
                  /\ modelUnloads = sceneOp.preUnloads

\* C20 witness: the first of three objects has been removed, so two later
\* objects have moved down.
C20_Witness ==
    /\ sceneOp.name = "removeObject"
    /\ sceneOp.index = 0
    /\ Len(sceneOp.pre) = 3
    /\ Len(objects) = 2
    /\ objects[1].model = 2

\* The positions (from 1) of the objects that had the name asked for before
\* the last operation.
Matches == {k \in 1 .. Len(sceneOp.pre) : sceneOp.pre[k].name = sceneOp.key}

\* The first of those positions.
FirstMatch == CHOOSE k \in Matches : \A j \in Matches : k <= j

\* C21: removeObjectByName(name) returns true exactly when some object had
\* that name; it then removes the first such object in insertion order,
\* unloads that object's model and no other, and keeps every other object
\* (later ones of the same name included) in order; when it returns false
\* the scene is unchanged.  findObjectByName(name) returns null exactly when
\* removeObjectByName(name) would return false, and otherwise points at the
\* first object of that name.
C21_RemoveAndFindByName ==
    /\ sceneOp.name = "removeObjectByName" =>
           LET pre == sceneOp.pre
           IN /\ sceneOp.found <=> Matches # {}
              /\ sceneOp.found =>
                     /\ objects = SubSeq(pre, 1, FirstMatch - 1)
                                    \o SubSeq(pre, FirstMatch + 1, Len(pre))
                     /\ modelUnloads =
                            [sceneOp.preUnloads EXCEPT ![pre[FirstMatch].model] = @ + 1]
              /\ ~sceneOp.found =>
                     /\ objects = pre
                     /\ modelUnloads = sceneOp.preUnloads
    /\ sceneOp.name = "findObjectByName" =>
           /\ sceneOp.found <=> Matches # {}
           /\ ~sceneOp.found <=>
                  ~RemovedObjectByName(objects, modelUnloads, sceneOp.key).ret
           /\ sceneOp.found => sceneOp.obj = sceneOp.pre[FirstMatch]
           /\ objects = sceneOp.pre
           /\ modelUnloads = sceneOp.preUnloads

\* C21 witness: of two objects named "a" behind an unnamed one, the first has
\* been removed by name and the second is still there.
C21_Witness ==
    /\ sceneOp.name = "removeObjectByName"
    /\ sceneOp.key = "a"
    /\ sceneOp.found
    /\ Len(sceneOp.pre) = 3
    /\ sceneOp.pre[1].name = ""
    /\ sceneOp.pre[2].name = "a"
    /\ Len(objects) = 2
    /\ objects[2].model = 3
    /\ objects[2].name = "a"

\* The models added to the scene so far.
ModelsAdded == 1 .. Len(modelUnloads)

\* The models of the objects the scene holds.
ModelsHeld == {objects[k].model : k \in 1 .. Len(objects)}

\* C22: once the scene is destroyed, every model added to it has been
\* unloaded exactly once; until then a model is unloaded once if it has left
\* the scene and not at all while the scene holds it.  After clear the
\* object count is 0 and isEmpty is true, and a clear or a destruction of an
\* empty scene unloads nothing.
C22_EveryModelUnloadedOnce ==
    /\ ~sceneAlive => \A m \in ModelsAdded : modelUnloads[m] = 1
    /\ \A m \in ModelsAdded :
           modelUnloads[m] = IF m \in ModelsHeld THEN 0 ELSE 1
    /\ sceneOp.name \in {"clear", "destroy"} =>
           /\ GetObjectCount(objects) = 0
           /\ IsEmpty(objects)
           /\ IsEmpty(sceneOp.pre) => modelUnloads = sceneOp.preUnloads

\* C22 witness: a scene that was given three models and had lost one of them
\* by a removal has been destroyed while holding the other two.
C22_Witness ==
    /\ ~sceneAlive
    /\ sceneOp.name = "destroy"
    /\ Len(sceneOp.pre) = 2
    /\ Len(modelUnloads) = 3
    /\ \E m \in ModelsAdded : sceneOp.preUnloads[m] = 1

\* C22 second case: a scene emptied by clear has been destroyed.
C22_WitnessSecondClear ==
    /\ ~sceneAlive
    /\ sceneOp.name = "destroy"
    /\ IsEmpty(sceneOp.pre)
    /\ Len(modelUnloads) = 3

\* ------------------------------------------- further claims on SceneManager

\* The last operation registered a non-null scene in a non-empty registry.
LaterRegistration ==
    /\ lastOp.name = "registerScene"
    /\ lastOp.arg # NullScene
    /\ PreSize >= 1

\* C23: registerScene of a non-null scene into a registry that already holds
\* a scene only appends it: the active index is unchanged and no initialize
\* and no cleanup is invoked on any scene, the new one included.
C23_LaterRegistrationOnlyAppends ==
    LaterRegistration =>
        /\ scenes = Append(lastOp.preScenes, lastOp.arg)
        /\ currentSceneIndex = lastOp.preIndex
        /\ lastOp.trace = <<>>
        /\ lifecycle = lastOp.preLife
        /\ lifecycle[lastOp.arg] = "never"
        /\ ~lastOp.threw

\* C23 witness: a third scene has been registered while scene 1 was active.
C23_Witness ==
    /\ LaterRegistration
    /\ PreSize = 2
    /\ lastOp.preIndex = 1
    /\ Len(scenes) = 3

\* The last operation was update() or draw().
PerFrame == lastOp.name \in {"update", "draw"}

\* C24: update and draw make exactly one call (update, respectively draw),
\* on the active scene, when a scene is active, and no call otherwise; they
\* leave the active index and the registry unchanged and invoke no
\* initialize and no cleanup.
C24_PerFrameForwardsOnce ==
    PerFrame =>
        /\ scenes = lastOp.preScenes
        /\ currentSceneIndex = lastOp.preIndex
        /\ lifecycle = lastOp.preLife
        /\ Inits = <<>> /\ Cleanups = <<>>
        /\ IF lastOp.preIndex < PreSize
           THEN lastOp.trace = <<Ev(lastOp.name, lastOp.preIndex,
                                    lastOp.preScenes[lastOp.preIndex + 1], "none")>>
           ELSE lastOp.trace = <<>>

\* C24 witness: draw has been forwarded to the second of three scenes.
C24_Witness ==
    /\ lastOp.name = "draw"
    /\ PreSize = 3
    /\ lastOp.preIndex = 1
    /\ Len(lastOp.trace) = 1
    /\ lastOp.trace[1].scene = 2

\* C25: whenever the registry is non-empty the active index is a valid
\* registry position, so getCurrentScene does not return null and
\* switchToNextScene never starts from an out-of-bounds index (its
\* defensive reset to 0 is not taken).
C25_ActiveIndexValid ==
    /\ Len(scenes) > 0 =>
           /\ currentSceneIndex < Len(scenes)
           /\ GetCurrentScene(scenes, currentSceneIndex) # NullScene
    /\ (lastOp.name = "switchToNextScene" /\ PreSize > 0) =>
           lastOp.preIndex < PreSize

\* C25 witness: with three scenes registered, a transition whose target and
\* fallback initialize both faulted has ended, on a valid index.
C25_Witness ==
    /\ Len(scenes) = 3
    /\ lastOp.name \in TransitionOps
    /\ Len(Inits) = 2
    /\ \A k \in 1 .. 2 : ~Ok(Inits[k])
    /\ currentSceneIndex = 0

\* Scene s has had initialize invoked with no normally completed cleanup
\* after it.
Pending(s) == lifecycle[s] \in {"init_ok", "init_fault", "cleanup_fault"}

\* C26: at most one scene, namely the active one, has had initialize invoked
\* by the controller without a later normally completed cleanup; the active
\* index never leaves a scene whose initialize was started (a target whose
\* initialize faulted included) without that scene being cleaned up.
C26_OnlyActiveScenePending ==
    \A s \in SceneIds :
        Pending(s) => s = GetCurrentScene(scenes, currentSceneIndex)

\* ------------------------------------- further claim on BulletPhysicsScene

\* The last operation was an initialize that was not skipped.
InitializeRan == bpsOp.name = "initialize" /\ ~bpsOp.pre.isInitialized

\* C27: createFallingBoxes creates exactly kBoxCount boxes, so that after an
\* initialize that ran, physicsObjects holds kBoxCount + 1 entries: the
\* ground object and kBoxCount boxes.
C27_BoxCountCreated ==
    InitializeRan =>
        /\ Len(bps.physicsObjects) = kBoxCount + 1
        /\ Len(bps.physicsObjects) - Len(bpsOp.pre.physicsObjects) - 1 = kBoxCount

=============================================================================
